---- MODULE Spec2Model ----
(***************************************************************************)
(* Model of the summary routes of Plant-Phenology-State-Detector:          *)
(*   src/src/app/api/flower-summary/route.ts  (batch, per species)         *)
(*   src/src/app/api/biome-summary/route.ts   (batch, per biome)           *)
(*   src/src/app/api/pest-summary/route.ts    (single entity)              *)
(*   src/unnamed/part_001                     (single entity, per species) *)
(*                                                                         *)
(* A JavaScript string is a sequence of one-character strings, so that     *)
(* trim() and toLowerCase() are computed and not assumed.  A longer token  *)
(* inside a sequence stands for a fixed piece of template text.            *)
(***************************************************************************)
EXTENDS Integers, Sequences, FiniteSets, TLC

VARIABLES
    mode,         \* which route this behaviour exercises
    pestStore,    \* /tmp/pest-summaries.json: cache key -> entry
    flowerStore,  \* data/flower-summaries.json: cache key -> entry
    biomeStore,   \* data/biome-summaries.json:  biome code -> entry
    singleStore,  \* /tmp/flower-summaries.json: cache key -> entry
    clock,        \* new Date(): advances with every request
    last,         \* the last request served and what the handler did for it
    kin1,         \* makeKey: first argument triple
    kin2,         \* makeKey: second argument triple
    kout,         \* makeKey: the keys computed for kin1 and kin2
    disk,         \* the cache file of the route whose requests run step by step
    proc,         \* the requests in progress: position, locals, response
    candidates,   \* the list of model identifiers the generation loop runs over
    writeLog,     \* the documents written to the cache file, in order
    modelText,    \* a text the model returned: the payload and what surrounds it
    parsedText    \* what the routes make of modelText

vars == <<mode, flowerStore, biomeStore, pestStore, singleStore, clock, last,
          kin1, kin2, kout, disk, proc, candidates, writeLog,
          modelText, parsedText>>

routeVars == <<mode, flowerStore, biomeStore, pestStore, singleStore, clock, last>>
keyVars == <<kin1, kin2, kout>>
stepVars == <<disk, proc, candidates, writeLog>>
textVars == <<modelText, parsedText>>

-----------------------------------------------------------------------------
(* Bounds *)

MaxLen == 2        \* longest name / code handed to makeKey
MaxSpecies == 2    \* most species records in one biome of a flower batch
MaxBiomes == 1     \* most biome records in one flower batch
MaxBatch == 2      \* most biome records in one biome-summary batch
MaxOps == 2        \* requests served in one behaviour
MaxConcurrent == 2 \* requests in progress at the same time
MaxModels == 3     \* longest list of model identifiers the generation loop runs over

\* The requests in progress.
Procs == 1..MaxConcurrent

-----------------------------------------------------------------------------
(* JavaScript values *)

\* The value undefined (an absent field or argument).
Undefined == <<"undefined">>

Letters == {"a", "A"}
Spaces == {" "}
Chars == Letters \cup Spaces

\* x is falsy for the || operator and for if (x): undefined or "".
Falsy(x) == x = Undefined \/ x = <<>>

\* a || b
Or(a, b) == IF Falsy(a) THEN b ELSE a

ToLowerChar(c) == IF c = "A" THEN "a" ELSE c

\* String.prototype.toLowerCase
ToLowerCase(s) == [i \in 1..Len(s) |-> ToLowerChar(s[i])]

RECURSIVE TrimStart(_)
TrimStart(s) ==
    IF s # <<>> /\ Head(s) \in Spaces THEN TrimStart(Tail(s)) ELSE s

RECURSIVE TrimEnd(_)
TrimEnd(s) ==
    IF s # <<>> /\ s[Len(s)] \in Spaces
    THEN TrimEnd(SubSeq(s, 1, Len(s) - 1))
    ELSE s

\* String.prototype.trim
Trim(s) == TrimEnd(TrimStart(s))

\* The literal 'unknown' of makeKey.
Unknown == <<"u", "n", "k", "n", "o", "w", "n">>

\* The separator of the template `${name}::${biome}`.
Separator == <<":", ":">>

-----------------------------------------------------------------------------
(* makeKey *)

\* flower-summary: const name = (scientific_name || common_name || 'unknown')...
flowerKeyName(scientific_name, common_name) ==
    ToLowerCase(Trim(Or(Or(scientific_name, common_name), Unknown)))

\* const biome = (biome_code || 'unknown').trim().toLowerCase()
keyBiome(biome_code) == ToLowerCase(Trim(Or(biome_code, Unknown)))

\* flower-summary makeKey(scientific_name, common_name, biome_code)
makeKey(scientific_name, common_name, biome_code) ==
    flowerKeyName(scientific_name, common_name) \o Separator \o keyBiome(biome_code)

\* pest-summary: const name = (pest_name || 'unknown').trim().toLowerCase()
pestKeyName(pest_name) == ToLowerCase(Trim(Or(pest_name, Unknown)))

\* pest-summary makeKey(pest_name, biome_name)
pestMakeKey(pest_name, biome_name) ==
    pestKeyName(pest_name) \o Separator \o keyBiome(biome_name)

-----------------------------------------------------------------------------
(* The arguments makeKey is applied to *)

RECURSIVE StringsUpTo(_)
StringsUpTo(n) ==
    IF n = 0 THEN {<<>>}
    ELSE LET shorter == StringsUpTo(n - 1)
         IN  shorter \cup {Append(s, c) : s \in shorter, c \in Chars}

\* An optional string argument: a string of at most MaxLen characters or undefined.
KeyArgs == StringsUpTo(MaxLen) \cup {Undefined}

\* a and b are the same argument once trimmed and lower-cased.
SameNormalized(a, b) ==
    IF a = Undefined \/ b = Undefined THEN a = b
    ELSE ToLowerCase(Trim(a)) = ToLowerCase(Trim(b))

\* An argument that is absent or blank: undefined, "" or only whitespace.
Blank(a) == a = Undefined \/ Trim(a) = <<>>

NoKeys == [done |-> FALSE]

\* The second argument of the flower makeKey (common_name) only matters when the
\* first is falsy: one character is enough for it.
ShortArgs == {a \in KeyArgs : a = Undefined \/ Len(a) < MaxLen}

KeyInit ==
    /\ kin1 \in KeyArgs \X ShortArgs \X KeyArgs
    /\ kin2 = kin1
    /\ kout = NoKeys

\* Choose a second argument triple that differs from the first in case and
\* surrounding whitespace only.
KeyVariant ==
    /\ kout = NoKeys
    /\ kin2 = kin1
    /\ \E t \in KeyArgs \X ShortArgs \X KeyArgs :
          /\ t # kin1
          /\ \A i \in 1..3 : SameNormalized(kin1[i], t[i])
          /\ kin2' = t
    /\ UNCHANGED <<kin1, kout>>

\* Apply both makeKey functions to both triples, and to the fields the first
\* application produced.
KeyApply ==
    /\ kout = NoKeys
    /\ kout' =
         [done   |-> TRUE,
          name   |-> flowerKeyName(kin1[1], kin1[2]),
          pname  |-> pestKeyName(kin1[1]),
          biome  |-> keyBiome(kin1[3]),
          name2  |-> flowerKeyName(kin2[1], kin2[2]),
          pname2 |-> pestKeyName(kin2[1]),
          biome2 |-> keyBiome(kin2[3]),
          key1   |-> makeKey(kin1[1], kin1[2], kin1[3]),
          key2   |-> makeKey(kin2[1], kin2[2], kin2[3]),
          again  |-> makeKey(flowerKeyName(kin1[1], kin1[2]), Undefined,
                             keyBiome(kin1[3])),
          pkey1  |-> pestMakeKey(kin1[1], kin1[3]),
          pkey2  |-> pestMakeKey(kin2[1], kin2[3]),
          pagain |-> pestMakeKey(pestKeyName(kin1[1]), keyBiome(kin1[3]))]
    /\ UNCHANGED <<kin1, kin2>>

\* Names and codes that hold the separator or the literal 'unknown'.
RECURSIVE SeparatorStrings(_)
SeparatorStrings(n) ==
    IF n = 0 THEN {<<>>}
    ELSE LET shorter == SeparatorStrings(n - 1)
         IN  shorter \cup {Append(s, c) : s \in shorter, c \in {"a", ":"}}

PairArgs == SeparatorStrings(MaxLen) \cup {Undefined, Unknown}

\* Two entities, each a name and a biome.
PairInit ==
    /\ kin1 \in PairArgs \X {Undefined} \X PairArgs
    /\ kin2 = kin1
    /\ kout = NoKeys

\* Choose a second entity.
KeyOther ==
    /\ kout = NoKeys
    /\ kin2 = kin1
    /\ \E t \in PairArgs \X {Undefined} \X PairArgs :
          /\ t # kin1
          /\ kin2' = t
    /\ UNCHANGED <<kin1, kout>>

-----------------------------------------------------------------------------
(* Objects and cache documents *)

\* The object {} : a Record<string, ...> with no key.
EmptyMap == [k \in {} |-> <<>>]

\* obj[key] = value
Put(obj, key, value) ==
    [k \in DOMAIN obj \cup {key} |-> IF k = key THEN value ELSE obj[k]]

\* Object.assign(target, source)
ObjectAssign(target, source) ==
    [k \in DOMAIN target \cup DOMAIN source |->
        IF k \in DOMAIN source THEN source[k] ELSE target[k]]

\* cache[key]?.summary is truthy
HasSummary(cache, key) == key \in DOMAIN cache /\ ~Falsy(cache[key].summary)

\* A variable that holds null, and a response field that is not sent.
Null == "<null>"
Absent == "<absent>"

\* What JSON.parse returned: an object with string values, or null.
JsonObject(m) == [t |-> "object", m |-> m]
JsonNull == [t |-> "null", m |-> EmptyMap]

\* if (value) for a parsed JSON value
JsonTruthy(v) == v.t = "object"

\* NextResponse.json(body) and NextResponse.json(body, { status: 500 })
Response(status, summaries, model, error) ==
    [status |-> status, summaries |-> summaries, model |-> model, error |-> error,
     summary |-> Undefined, cached |-> FALSE]

\* The response of the catch block; it carries no summaries.
Failure(error) == Response(500, EmptyMap, Absent, error)

NoRequest == [op |-> "none"]

\* No text, and no result of cleaning and parsing one.
NoText == [payload |-> "", fenced |-> FALSE, text |-> <<>>]
NotParsed == [done |-> FALSE]

\* The cache file does not exist (fs.readFile fails with ENOENT).
NoFile == [kind |-> "missing", doc |-> EmptyMap]

\* A request slot before its request arrives.  pc is what the handler awaits;
\* cache is the object readCache returned, doc the object handed to
\* writeCache, events the I/O the handler started.  What happened to its I/O:
\* saw is the kind of file its read found, readErr a read error other than
\* ENOENT, torn a read that ran during a write, readVersion the number of
\* writes that ended before its read, raced a write during which another one
\* ended, writeErr a write error.
IdleProc ==
    [pc |-> "idle", request |-> <<>>, apiKey |-> FALSE, cache |-> EmptyMap,
     calls |-> <<>>, replies |-> <<>>, doc |-> EmptyMap, resp |-> Failure(""),
     events |-> <<>>, saw |-> "none", readErr |-> FALSE, torn |-> FALSE,
     readVersion |-> 0, raced |-> FALSE, writeErr |-> FALSE]

-----------------------------------------------------------------------------
(* The cache file: readCache and writeCache *)

\* The fields of an entry that can hold undefined.
OptionalFields ==
    {"summary", "scientific_name", "common_name", "biome_name", "pest_name"}

\* The fields the entries of a route's cache are read by.
EntryFields(op) ==
    CASE op = "flower" -> {"summary", "scientific_name", "common_name", "biome_name",
                           "modelUsed", "generatedAt"}
      [] op = "biome"  -> {"summary", "modelUsed"}
      [] op = "pest"   -> {"summary", "pest_name", "biome_name", "modelUsed",
                           "generatedAt"}
      [] op = "single" -> {"summary", "scientific_name", "common_name", "biome_name",
                           "modelUsed", "generatedAt"}

\* JSON.stringify of an entry: a property whose value is undefined is left out.
JsonStringifyEntry(entry) ==
    [f \in {g \in DOMAIN entry : ~(g \in OptionalFields /\ entry[g] = Undefined)} |->
        entry[f]]

\* JSON.stringify(obj, null, 2)
JsonStringify(obj) == [k \in DOMAIN obj |-> JsonStringifyEntry(obj[k])]

\* JSON.parse of the text of an entry, as the handlers see it: a property
\* that is not in the text reads undefined.
JsonParseEntry(fields, text) ==
    [f \in fields |-> IF f \in DOMAIN text THEN text[f] ELSE Undefined]

\* JSON.parse(buf)
JsonParse(op, doc) == [k \in DOMAIN doc |-> JsonParseEntry(EntryFields(op), doc[k])]

\* A file that holds the text of a document, a file of length 0, and a file
\* that holds only a part of a text.
FileOf(doc) == [kind |-> "json", doc |-> doc]
EmptyFile == [kind |-> "empty", doc |-> EmptyMap]
CorruptFile == [kind |-> "corrupt", doc |-> EmptyMap]

\* What readCache did: returned an object, or threw.
ReadOk(cache) == [ok |-> TRUE, cache |-> cache, error |-> ""]
ReadThrows(error) == [ok |-> FALSE, cache |-> EmptyMap, error |-> error]

\* readCache with every error taken for a missing file.
readCacheLenient(op, file, fault) ==
    IF ~fault /\ file.kind = "json" THEN ReadOk(JsonParse(op, file.doc))
    ELSE ReadOk(EmptyMap)

\* async function readCache(); fault: fs.readFile fails with an error other
\* than ENOENT.
readCache(op, file, fault) ==
    IF fault THEN ReadThrows("EACCES: permission denied")
    ELSE CASE file.kind = "missing" -> ReadOk(EmptyMap)   \* e?.code === 'ENOENT'
           [] file.kind = "empty"   -> ReadOk(EmptyMap)   \* JSON.parse(buf || '{}')
           [] file.kind = "corrupt" -> ReadThrows("Unexpected end of JSON input")
           [] file.kind = "json"    -> ReadOk(JsonParse(op, file.doc))

\* fs.writeFile that keeps the entries of the file the object does not have.
writeFileMerging(op, file, obj) ==
    FileOf(JsonStringify(ObjectAssign(IF file.kind = "json" THEN JsonParse(op, file.doc)
                                      ELSE EmptyMap, obj)))

\* fs.writeFile opened for appending: the text is added to what the file
\* holds, and two texts in a row are no JSON text.
writeFileAppending(op, file, obj) ==
    IF file.kind \in {"json", "corrupt"} THEN CorruptFile ELSE FileOf(JsonStringify(obj))

\* await fs.writeFile(CACHE_FILE, JSON.stringify(obj, null, 2), 'utf8'),
\* completed: the file holds the text of obj.
writeFile(op, file, obj) == FileOf(JsonStringify(obj))

-----------------------------------------------------------------------------
(* What the generation endpoint can answer to one fetch *)

\* Texts a model writes for a summary.
GenTexts == {<<"G1">>, <<"G2">>}

\* fetch() rejects, the status is not ok (with or without a message that
\* formatError finds), the text is empty, the text is no JSON, the text is JSON.
ReplyFails ==
    {[kind |-> "throw", msg |-> "network", json |-> JsonNull],
     [kind |-> "http", msg |-> "quota", json |-> JsonNull],
     [kind |-> "http", msg |-> "", json |-> JsonNull],
     [kind |-> "empty", msg |-> "", json |-> JsonNull],
     [kind |-> "badjson", msg |-> "", json |-> JsonNull]}

\* The replies whose text parses: null, or an object over some of `keys`.
ReplyParsed(keys) ==
    {[kind |-> "json", msg |-> "", json |-> JsonNull]} \cup
    {[kind |-> "json", msg |-> "", json |-> JsonObject(m)] :
        m \in UNION {[d -> GenTexts] : d \in SUBSET keys}}

Replies(keys) == ReplyFails \cup ReplyParsed(keys)

-----------------------------------------------------------------------------
(* flower-summary/route.ts *)

\* const models = ['gemini-2.5-flash-lite']
models == <<"gemini-2.5-flash-lite">>

\* The (species, biome) pairs in the order of the nested loops
\* for (const biome of ...) for (const species of biome.species).
RECURSIVE SpeciesOf(_)
SpeciesOf(biomes) ==
    IF biomes = <<>> THEN <<>>
    ELSE LET b == Head(biomes)
         IN  [i \in 1..Len(b.species) |-> [species |-> b.species[i], biome |-> b]]
             \o SpeciesOf(Tail(biomes))

\* makeKey(species.scientific_name, species.common_name, biome.biome)
flowerKey(pair) ==
    makeKey(pair.species.scientific_name, pair.species.common_name, pair.biome.biome)

\* The keys of a sequence of pairs, in order.
flowerKeys(pairs) == [i \in 1..Len(pairs) |-> flowerKey(pairs[i])]

Range(seq) == {seq[i] : i \in 1..Len(seq)}

\* flowerToFetch without the cache lookup: every species is fetched.
RECURSIVE flowerToFetchAll(_, _)
flowerToFetchAll(cache, biomes) ==
    IF biomes = <<>> THEN <<>>
    ELSE LET b == Head(biomes)
             rest == flowerToFetchAll(cache, Tail(biomes))
         IN  IF Len(b.species) > 0 THEN <<b>> \o rest ELSE rest

\* { ...biome, species: speciesToFetch } for the species without a cached summary
RECURSIVE flowerToFetch(_, _)
flowerToFetch(cache, biomes) ==
    IF biomes = <<>> THEN <<>>
    ELSE LET b == Head(biomes)
             Miss(sp) == ~HasSummary(cache, makeKey(sp.scientific_name, sp.common_name, b.biome))
             speciesToFetch == SelectSeq(b.species, Miss)
             rest == flowerToFetch(cache, Tail(biomes))
         IN  IF Len(speciesToFetch) > 0
             THEN <<[b EXCEPT !.species = speciesToFetch]>> \o rest
             ELSE rest

\* Step 1: finalSummaries, biomesToFetch and keyToDataMap after the loop.
flowerPartition(cache, requestData) ==
    LET pairs == SpeciesOf(requestData)
        keys == Range(flowerKeys(pairs))
        LastWith(k) == CHOOSE i \in 1..Len(pairs) :
                          /\ flowerKey(pairs[i]) = k
                          /\ \A j \in (i + 1)..Len(pairs) : flowerKey(pairs[j]) # k
    IN  [finalSummaries |-> [k \in {x \in keys : HasSummary(cache, x)} |-> cache[k].summary],
         biomesToFetch  |-> flowerToFetch(cache, requestData),
         keyToDataMap   |-> [k \in keys |-> pairs[LastWith(k)]]]

\* const namePart = species.common_name || species.scientific_name || 'This plant'
flowerNamePart(species) ==
    Or(Or(species.common_name, species.scientific_name), <<"This plant">>)

\* `${namePart} is documented in the ${biome.biome_name} biome, where it ...`
flowerNoKeyText(species, biome) ==
    flowerNamePart(species) \o <<" is documented in the ">> \o biome.biome_name
        \o <<" biome, where it adapts to local conditions.">>

\* `${namePart} is a species found in the ${biome.biome_name} biome. Its ...`
flowerFailedText(species, biome) ==
    flowerNamePart(species) \o <<" is a species found in the ">> \o biome.biome_name
        \o <<" biome. Its specific characteristics depend on local climate and soil conditions.">>

\* The object stored under cache[key].
flowerEntry(summary, species, biome, modelUsed, now) ==
    [summary         |-> summary,
     scientific_name |-> species.scientific_name,
     common_name     |-> species.common_name,
     biome_name      |-> biome.biome_name,
     modelUsed       |-> modelUsed,
     generatedAt     |-> now]

\* flowerFallbacks without cache[key] = {...}: the fallback is returned but
\* not persisted.
RECURSIVE flowerFallbacksNotPersisted(_, _, _, _)
flowerFallbacksNotPersisted(pairs, acc, tag, now) ==
    IF pairs = <<>> THEN acc
    ELSE LET p == Head(pairs)
             fallback == IF tag = "fallback/no-key"
                         THEN flowerNoKeyText(p.species, p.biome)
                         ELSE flowerFailedText(p.species, p.biome)
         IN  flowerFallbacksNotPersisted(Tail(pairs),
                 [finalSummaries |-> Put(acc.finalSummaries, flowerKey(p), fallback),
                  cache |-> acc.cache],
                 tag, now)

\* flowerFallbacks with the time of generation written into the sentence.
RECURSIVE flowerFallbacksDated(_, _, _, _)
flowerFallbacksDated(pairs, acc, tag, now) ==
    IF pairs = <<>> THEN acc
    ELSE LET p == Head(pairs)
             key == flowerKey(p)
             fallback == (IF tag = "fallback/no-key"
                          THEN flowerNoKeyText(p.species, p.biome)
                          ELSE flowerFailedText(p.species, p.biome))
                         \o <<" Generated at ", ToString(now)>>
         IN  flowerFallbacksDated(Tail(pairs),
                 [finalSummaries |-> Put(acc.finalSummaries, key, fallback),
                  cache |-> Put(acc.cache, key,
                                flowerEntry(fallback, p.species, p.biome, tag, now))],
                 tag, now)

\* The loops of step 2 (tag "fallback/no-key") and step 6 (tag
\* "fallback/generator-failed") over the species of biomesToFetch.
RECURSIVE flowerFallbacks(_, _, _, _)
flowerFallbacks(pairs, acc, tag, now) ==
    IF pairs = <<>> THEN acc
    ELSE LET p == Head(pairs)
             key == flowerKey(p)
             fallback == IF tag = "fallback/no-key"
                         THEN flowerNoKeyText(p.species, p.biome)
                         ELSE flowerFailedText(p.species, p.biome)
         IN  flowerFallbacks(Tail(pairs),
                 [finalSummaries |-> Put(acc.finalSummaries, key, fallback),
                  cache |-> Put(acc.cache, key,
                                flowerEntry(fallback, p.species, p.biome, tag, now))],
                 tag, now)

\* lastError after a candidate that did not produce a parsed value.
flowerLastError(reply) ==
    CASE reply.kind = "throw"   -> reply.msg
      [] reply.kind = "http"    ->
            \* formatError(maybeJson) || (await resp.text()); the body was
            \* already read by safeJson, so text() rejects into catch (err)
            IF reply.msg # "" THEN reply.msg ELSE "Body has already been read"
      [] reply.kind = "empty"   -> "Empty response from Gemini"
      [] reply.kind = "badjson" -> "Failed to parse JSON response from model"

\* The loop of step 4 over a list of candidates, from candidate i on: one
\* fetch per candidate, break after the first text that parses.
\* The loop without its break: a candidate is called after a text parsed.
RECURSIVE flowerTryModelsNoBreak(_, _, _, _, _)
flowerTryModelsNoBreak(list, i, replies, payload, st) ==
    IF i > Len(list) THEN st
    ELSE LET sent == [st EXCEPT !.calls = Append(@, [model |-> list[i], payload |-> payload])]
         IN  flowerTryModelsNoBreak(list, i + 1, replies, payload,
                IF replies[i].kind = "json"
                THEN [sent EXCEPT !.newSummaries = replies[i].json, !.modelUsed = list[i]]
                ELSE [sent EXCEPT !.lastError = flowerLastError(replies[i])])

RECURSIVE flowerTryModels(_, _, _, _, _)
flowerTryModels(list, i, replies, payload, st) ==
    IF i > Len(list) THEN st
    ELSE LET sent == [st EXCEPT !.calls = Append(@, [model |-> list[i], payload |-> payload])]
         IN  IF replies[i].kind = "json"
             THEN [sent EXCEPT !.newSummaries = replies[i].json, !.modelUsed = list[i]]
             ELSE flowerTryModels(list, i + 1, replies, payload,
                                  [sent EXCEPT !.lastError = flowerLastError(replies[i])])

\* Step 4: for (const model of models), one fetch per candidate.
flowerGenerate(i, replies, payload, st) ==
    flowerTryModels(models, i, replies, payload, st)

\* Step 5: Object.assign(finalSummaries, newSummaries) and the cache update
\* for (const key in newSummaries) { const data = keyToDataMap.get(key); ... }
flowerMergeSummaries(finalSummaries, newSummaries) ==
    ObjectAssign(finalSummaries, newSummaries)

flowerMergeCache(cache, newSummaries, keyToDataMap, modelUsed, now) ==
    LET written == DOMAIN newSummaries \cap DOMAIN keyToDataMap
    IN  [k \in DOMAIN cache \cup written |->
            IF k \in written
            THEN flowerEntry(newSummaries[k], keyToDataMap[k].species,
                             keyToDataMap[k].biome, modelUsed, now)
            ELSE cache[k]]

\* What one run of a handler did: the document it leaves in the store, the
\* number of writeCache calls, the fetch calls, the needs-fetch group and the
\* response.
Outcome(cache, writes, calls, toFetch, resp) ==
    [cache |-> cache, writes |-> writes, calls |-> calls, toFetch |-> toFetch,
     resp |-> resp]

\* The body of POST between readCache and the response, with the loop of
\* step 4 running over `list`.
flowerPOSTWith(list, cache, requestData, apiKey, replies, now) ==
    LET part == flowerPartition(cache, requestData)
        toFetch == SpeciesOf(part.biomesToFetch)
        start == [finalSummaries |-> part.finalSummaries, cache |-> cache]
        gen == flowerTryModels(list, 1, replies, part.biomesToFetch,
                   [lastError |-> Null, modelUsed |-> Null,
                    newSummaries |-> JsonNull, calls |-> <<>>])
    IN  IF Len(part.biomesToFetch) = 0
        THEN Outcome(cache, 0, <<>>, toFetch,
                     Response(200, part.finalSummaries, "cache", Absent))
        ELSE IF ~apiKey
        THEN LET fb == flowerFallbacks(toFetch, start, "fallback/no-key", now)
             IN  Outcome(fb.cache, 1, <<>>, toFetch,
                         Response(200, fb.finalSummaries, "fallback/no-key", Absent))
        ELSE IF JsonTruthy(gen.newSummaries) /\ gen.modelUsed # Null
        THEN Outcome(flowerMergeCache(cache, gen.newSummaries.m, part.keyToDataMap,
                                      gen.modelUsed, now),
                     1, gen.calls, toFetch,
                     Response(200,
                              flowerMergeSummaries(part.finalSummaries, gen.newSummaries.m),
                              gen.modelUsed, Absent))
        ELSE LET fb == flowerFallbacks(toFetch, start, "fallback/generator-failed", now)
             IN  Outcome(fb.cache, 1, gen.calls, toFetch,
                         Response(200, fb.finalSummaries, "fallback/generator-failed",
                                  gen.lastError))

\* export async function POST(req), for a request body that parses and a
\* cache file that reads and writes without a fault.
flowerPOST(cache, requestData, apiKey, replies, now) ==
    flowerPOSTWith(models, cache, requestData, apiKey, replies, now)

-----------------------------------------------------------------------------
(* biome-summary/route.ts *)

\* Array.prototype.join
RECURSIVE Join(_, _)
Join(strings, sep) ==
    IF strings = <<>> THEN <<>>
    ELSE IF Len(strings) = 1 THEN strings[1]
    ELSE strings[1] \o sep \o Join(Tail(strings), sep)

\* Array.prototype.slice(0, n)
Slice0(seq, n) == SubSeq(seq, 1, IF Len(seq) < n THEN Len(seq) ELSE n)

\* `The ${biome.biome_name} biome is characterized by ... including ${...},
\*  and is home to pests such as ${...}.`
biomeNoKeyText(biome) ==
    LET plants == Slice0(biome.species, 2)
        pests == Slice0(biome.pests, 1)
    IN  <<"The ">> \o biome.biome_name
        \o <<" biome is characterized by its distinct climate patterns. It supports a variety of plant species, including ">>
        \o Join([i \in 1..Len(plants) |-> plants[i].common_name], <<",", " ">>)
        \o <<", and is home to pests such as ">>
        \o Join([i \in 1..Len(pests) |-> pests[i].common_name_pest], <<>>)
        \o <<".">>

\* requestData.filter(biome => !cache[biome.biome]?.summary)
biomeToFetch(cache, requestData) ==
    LET Miss(b) == ~HasSummary(cache, b.biome)
    IN  SelectSeq(requestData, Miss)

\* for (const biome of requestData) if (cache[biome.biome]?.summary) ...
biomeCached(cache, requestData) ==
    [k \in {b.biome : b \in {x \in Range(requestData) : HasSummary(cache, x.biome)}} |->
        cache[k].summary]

\* The loop of the no-key branch over biomesToFetch.
RECURSIVE biomeFallbacks(_, _)
biomeFallbacks(biomes, acc) ==
    IF biomes = <<>> THEN acc
    ELSE LET b == Head(biomes)
             fallback == biomeNoKeyText(b)
         IN  biomeFallbacks(Tail(biomes),
                 [finalSummaries |-> Put(acc.finalSummaries, b.biome, fallback),
                  cache |-> Put(acc.cache, b.biome,
                                [summary |-> fallback, modelUsed |-> "fallback/no-key"])])

\* for (const biomeCode in newSummaries) cache[biomeCode] = { ... }
biomeMergeCache(cache, newSummaries) ==
    [k \in DOMAIN cache \cup DOMAIN newSummaries |->
        IF k \in DOMAIN newSummaries
        THEN [summary |-> newSummaries[k], modelUsed |-> "gemini-2.5-flash-lite"]
        ELSE cache[k]]

\* e?.message || 'Unknown server error' of the catch block
biomeErrorMessage(reply) ==
    CASE reply.kind = "throw"   -> reply.msg
      [] reply.kind = "http"    -> IF reply.msg # "" THEN reply.msg
                                   ELSE "Unknown server error"
      [] reply.kind = "empty"   -> "Unexpected end of JSON input"
      [] reply.kind = "badjson" -> "Unexpected token"

\* export async function POST(req), for a request body that parses and a
\* cache file that reads and writes without a fault.
biomePOST(cache, requestData, apiKey, reply) ==
    LET biomesToFetch == biomeToFetch(cache, requestData)
        finalSummaries == biomeCached(cache, requestData)
        call == <<[model |-> "gemini-2.5-flash-lite", payload |-> biomesToFetch]>>
    IN  IF Len(biomesToFetch) = 0
        THEN Outcome(cache, 0, <<>>, biomesToFetch,
                     Response(200, finalSummaries, "cache", Absent))
        ELSE IF ~apiKey
        THEN LET fb == biomeFallbacks(biomesToFetch,
                           [finalSummaries |-> finalSummaries, cache |-> cache])
             IN  Outcome(fb.cache, 1, <<>>, biomesToFetch,
                         Response(200, fb.finalSummaries, "fallback/no-key", Absent))
        ELSE IF reply.kind # "json"
        THEN \* throw new Error(await resp.text()), a rejected fetch and a
             \* JSON.parse error all end in the catch block
             Outcome(cache, 0, call, biomesToFetch,
                     Failure(biomeErrorMessage(reply)))
        ELSE Outcome(biomeMergeCache(cache, reply.json.m), 1, call, biomesToFetch,
                     Response(200, ObjectAssign(finalSummaries, reply.json.m),
                              Absent, Absent))

-----------------------------------------------------------------------------
(* pest-summary/route.ts *)

\* The field name "summary" of the object the pest prompt asks for.
SummaryField == <<"summary">>

\* `${pest_name} is a known pest in the ${biome_name} biome. Control ...`
pestNoKeyText(pest_name, biome_name) ==
    pest_name \o <<" is a known pest in the ">> \o biome_name
        \o <<" biome. Control methods should be considered based on local guidelines.">>

\* NextResponse.json of the single-entity route: { summary, cached? } or
\* { error } with a status.
PestResponse(status, summary, cached, error) ==
    [status |-> status, summary |-> summary, cached |-> cached, error |-> error,
     summaries |-> EmptyMap, model |-> Absent]

\* export async function POST(req), for a request body that parses and a
\* cache file that reads and writes without a fault.
pestPOST(cache, body, apiKey, reply, now) ==
    LET key == pestMakeKey(body.pest_name, body.biome_name)
        call == <<[model |-> "gemini-2.5-flash-lite", payload |-> <<body>>]>>
    IN  IF Falsy(body.pest_name) \/ Falsy(body.biome_name)
        THEN Outcome(cache, 0, <<>>, <<>>,
                     PestResponse(400, Undefined, FALSE, "Missing pest_name or biome_name"))
        ELSE IF HasSummary(cache, key)
        THEN Outcome(cache, 0, <<>>, <<>>,
                     PestResponse(200, cache[key].summary, TRUE, Absent))
        ELSE IF ~apiKey
        THEN LET fallback == pestNoKeyText(body.pest_name, body.biome_name)
             IN  Outcome(Put(cache, key, [summary |-> fallback, pest_name |-> Undefined,
                                          biome_name |-> Undefined,
                                          modelUsed |-> "fallback/no-key",
                                          generatedAt |-> 0]),
                         1, <<>>, <<body>>, PestResponse(200, fallback, FALSE, Absent))
        ELSE IF reply.kind \in {"throw", "http"}
        THEN \* a rejected fetch, and throw new Error(`API Error: ...`)
             Outcome(cache, 0, call, <<body>>,
                     PestResponse(500, Undefined, FALSE,
                                  IF reply.kind = "http" THEN "API Error" ELSE reply.msg))
        ELSE IF reply.kind # "json" \/ reply.json.t # "object"
                \/ SummaryField \notin DOMAIN reply.json.m
        THEN \* JSON.parse throws, parsed is null, or typeof parsed.summary !== 'string'
             Outcome(cache, 0, call, <<body>>,
                     PestResponse(500, Undefined, FALSE, "AI returned a malformed response."))
        ELSE LET newSummary == reply.json.m[SummaryField]
             IN  Outcome(Put(cache, key, [summary |-> newSummary,
                                          pest_name |-> body.pest_name,
                                          biome_name |-> body.biome_name,
                                          modelUsed |-> "gemini-2.5-flash-lite",
                                          generatedAt |-> now]),
                         1, call, <<body>>, PestResponse(200, newSummary, FALSE, Absent))

-----------------------------------------------------------------------------
(* unnamed/part_001: the flower summary of one species *)

\* makeKey(scientific_name, common_name, biome_name) of part_001
singleMakeKey(scientific_name, common_name, biome_name) ==
    ToLowerCase(Trim(Or(Or(scientific_name, common_name), Unknown)))
        \o Separator \o ToLowerCase(Trim(Or(biome_name, Unknown)))

\* const namePart = scientific_name || common_name || 'This plant'
singleNamePart(body) ==
    Or(Or(body.scientific_name, body.common_name), <<"This plant">>)

\* `${namePart} is well-adapted to the conditions of the ${biome_name} biome.`
singleNoKeyText(body) ==
    singleNamePart(body) \o <<" is well-adapted to the conditions of the ">>
        \o body.biome_name \o <<" biome.">>

\* e?.message || 'Unknown server error' of the catch block
singleErrorMessage(reply) ==
    CASE reply.kind = "throw"   -> reply.msg
      [] reply.kind = "http"    -> IF reply.msg # "" THEN reply.msg
                                   ELSE "Unknown server error"
      [] reply.kind = "empty"   -> "Unexpected end of JSON input"
      [] reply.kind = "badjson" -> "Unexpected token"
      [] reply.kind = "json"    -> "Cannot read properties of null"

\* export async function POST(req), for a request body that parses and a
\* cache file that reads and writes without a fault.
singlePOST(cache, body, apiKey, reply, now) ==
    LET key == singleMakeKey(body.scientific_name, body.common_name, body.biome_name)
        call == <<[model |-> "gemini-2.5-flash-lite", payload |-> <<body>>]>>
    IN  IF HasSummary(cache, key)
        THEN Outcome(cache, 0, <<>>, <<>>,
                     PestResponse(200, cache[key].summary, TRUE, Absent))
        ELSE IF ~apiKey
        THEN LET fallback == singleNoKeyText(body)
             IN  Outcome(Put(cache, key, [summary |-> fallback,
                                          scientific_name |-> Undefined,
                                          common_name |-> Undefined,
                                          biome_name |-> Undefined,
                                          modelUsed |-> "fallback/no-key",
                                          generatedAt |-> 0]),
                         1, <<>>, <<body>>, PestResponse(200, fallback, FALSE, Absent))
        ELSE IF reply.kind # "json" \/ reply.json.t # "object"
        THEN \* a rejected fetch, throw new Error(await resp.text()), JSON.parse
             \* throwing, and .summary of null all end in the catch block
             Outcome(cache, 0, call, <<body>>,
                     PestResponse(500, Undefined, FALSE, singleErrorMessage(reply)))
        ELSE \* JSON.parse(cleanedText).summary: undefined when the object has no
             \* such field
             LET newSummary == IF SummaryField \in DOMAIN reply.json.m
                               THEN reply.json.m[SummaryField]
                               ELSE Undefined
             IN  Outcome(Put(cache, key, [summary |-> newSummary,
                                          scientific_name |-> body.scientific_name,
                                          common_name |-> body.common_name,
                                          biome_name |-> body.biome_name,
                                          modelUsed |-> "gemini-2.5-flash-lite",
                                          generatedAt |-> now]),
                         1, call, <<body>>, PestResponse(200, newSummary, FALSE, Absent))

-----------------------------------------------------------------------------
(* The requests the routes are exercised with *)

RECURSIVE SeqsUpTo(_, _)
SeqsUpTo(S, n) ==
    IF n = 0 THEN {<<>>}
    ELSE LET shorter == SeqsUpTo(S, n - 1)
         IN  shorter \cup {Append(q, x) : q \in shorter, x \in S}

\* Two records of one species (same key, other common name) and another one.
FlowerSpecies ==
    {[scientific_name |-> <<"A">>, common_name |-> <<"a", "a">>],
     [scientific_name |-> <<" ", "a">>, common_name |-> Undefined],
     [scientific_name |-> Undefined, common_name |-> <<"a", "A">>]}

\* Biome records without their species; the two codes normalize to "a".
FlowerBiomes ==
    {[biome |-> <<"A">>, biome_name |-> <<"Humid subtropical">>],
     [biome |-> <<"a", " ">>, biome_name |-> <<"Temperate">>]}

FlowerBatches ==
    SeqsUpTo({[biome |-> b.biome, biome_name |-> b.biome_name, species |-> ss] :
                 b \in FlowerBiomes, ss \in SeqsUpTo(FlowerSpecies, MaxSpecies)},
             MaxBiomes)

\* A key no request asks for.
ExtraKey == <<"z">> \o Separator \o <<"z">>

\* Two records with the code "A" and one with the code "a".
BiomeRecords ==
    {[biome |-> <<"A">>, biome_name |-> <<"Humid subtropical">>,
      species |-> <<[common_name |-> <<"Rose">>], [common_name |-> <<"Oak">>],
                    [common_name |-> <<"Fern">>]>>,
      pests |-> <<[common_name_pest |-> <<"Aphid">>], [common_name_pest |-> <<"Mite">>]>>],
     [biome |-> <<"A">>, biome_name |-> <<"Temperate">>,
      species |-> <<[common_name |-> <<"Rose">>]>>,
      pests |-> <<>>],
     [biome |-> <<"a">>, biome_name |-> <<"Tundra">>,
      species |-> <<>>,
      pests |-> <<[common_name_pest |-> <<"Aphid">>]>>]}

BiomeBatches == SeqsUpTo(BiomeRecords, MaxBatch)

\* Requests of the pest route: with and without the identity fields.
PestBodies ==
    [pest_name : {<<"A">>, <<"a", " ">>, <<" ">>, Undefined},
     biome_name : {<<"A">>, <<"a">>, <<>>}]

\* Requests of part_001: with and without the identity fields.
SingleBodies ==
    [scientific_name : {<<"A">>, Undefined},
     common_name : {<<"a", " ">>, Undefined},
     biome_name : {<<"A">>, <<"a">>, Undefined}]

-----------------------------------------------------------------------------
(* The routes as a state machine: one request is served at a time *)

RouteIdle ==
    /\ flowerStore = EmptyMap
    /\ biomeStore = EmptyMap
    /\ pestStore = EmptyMap
    /\ singleStore = EmptyMap
    /\ clock = 0
    /\ last = NoRequest

KeyIdle ==
    /\ kin1 = <<Undefined, Undefined, Undefined>>
    /\ kin2 = kin1
    /\ kout = NoKeys

\* No text of the model is looked at.
TextIdle ==
    /\ modelText = NoText
    /\ parsedText = NotParsed

\* No request is in progress.
StepIdle ==
    /\ disk = NoFile
    /\ proc = [p \in Procs |-> IdleProc]
    /\ candidates = models
    /\ writeLog = <<>>

\* No cache file exists yet: readCache returns {}.
Init ==
    /\ mode \in {"flower", "biome", "pest", "single"}
    /\ RouteIdle
    /\ KeyIdle
    /\ TextIdle
    /\ StepIdle

\* The answer to a fetch that is never made.
NoReplies == [i \in 1..Len(models) |-> [kind |-> "throw", msg |-> "network", json |-> JsonNull]]

Handle(op, cache, request, apiKey, replies, now) ==
    CASE op = "flower" -> flowerPOST(cache, request, apiKey, replies, now)
      [] op = "biome"  -> biomePOST(cache, request, apiKey, replies[1])
      [] op = "pest"   -> pestPOST(cache, request, apiKey, replies[1], now)
      [] op = "single" -> singlePOST(cache, request, apiKey, replies[1], now)

\* The cache keys of the entities of a request.
EntityKeys(op, request) ==
    CASE op = "flower" -> Range(flowerKeys(SpeciesOf(request)))
      [] op = "biome"  -> {b.biome : b \in Range(request)}
      [] op = "pest"   -> {pestMakeKey(request.pest_name, request.biome_name)}
      [] op = "single" -> {singleMakeKey(request.scientific_name, request.common_name,
                                         request.biome_name)}

\* The keys of the object the model may answer with: those of the request
\* (for the pest route the field "summary") and one nobody asked for.
ReplyKeys(op, request) ==
    (IF op \in {"pest", "single"} THEN {SummaryField} ELSE EntityKeys(op, request))
        \cup {ExtraKey}

\* The endpoint answers only the requests that reach it.
ReplyChoices(op, cache, request, apiKey) ==
    IF apiKey /\ Handle(op, cache, request, TRUE, NoReplies, 0).calls # <<>>
    THEN [1..Len(models) -> Replies(ReplyKeys(op, request))]
    ELSE {NoReplies}

\* The texts a response carries.
Texts(resp) == <<resp.summaries, resp.summary>>

\* The summaries a response returns, by the cache key of the entity.
Returned(op, request, resp) ==
    IF resp.status # 200 THEN EmptyMap
    ELSE IF op \in {"pest", "single"}
    THEN [k \in {e \in EntityKeys(op, request) : ~Falsy(resp.summary)} |-> resp.summary]
    ELSE [k \in {e \in EntityKeys(op, request) :
                   e \in DOMAIN resp.summaries /\ ~Falsy(resp.summaries[e])} |->
             resp.summaries[k]]

\* The record of a served request and of what the handler did (out).  twin:
\* the texts the same handler returns for the same request, cache and answers
\* at another time.  prev: the texts of the preceding response when that
\* request was the same one.  earlier: the summaries the preceding response
\* returned.
Served(op, request, apiKey, replies, cacheRead, out, twin) ==
    LET same == /\ last.op = op
                /\ last.requestData = request
                /\ last.apiKey = apiKey
    IN  [op |-> op, requestData |-> request, apiKey |-> apiKey, replies |-> replies,
         cacheRead |-> cacheRead, toFetch |-> out.toFetch, calls |-> out.calls,
         writes |-> out.writes, resp |-> out.resp,
         twin |-> Texts(twin.resp),
         earlier |-> IF last.op = "none" THEN EmptyMap
                     ELSE Returned(last.op, last.requestData, last.resp),
         prev |-> [same |-> same,
                   texts |-> IF same THEN Texts(last.resp) ELSE Texts(out.resp)]]

\* POST /api/flower-summary
FlowerRequest ==
    /\ mode = "flower"
    /\ clock < MaxOps
    /\ \E requestData \in FlowerBatches, apiKey \in BOOLEAN :
       \E replies \in ReplyChoices("flower", flowerStore, requestData, apiKey) :
          LET out == flowerPOST(flowerStore, requestData, apiKey, replies, clock + 1)
              twin == flowerPOST(flowerStore, requestData, apiKey, replies, clock + 2)
          IN  /\ flowerStore' = out.cache
              /\ last' = Served("flower", requestData, apiKey, replies, flowerStore,
                                out, twin)
    /\ clock' = clock + 1
    /\ UNCHANGED <<mode, biomeStore, pestStore, singleStore, keyVars, stepVars, textVars>>

\* POST /api/biome-summary
BiomeRequest ==
    /\ mode = "biome"
    /\ clock < MaxOps
    /\ \E requestData \in BiomeBatches, apiKey \in BOOLEAN :
       \E replies \in ReplyChoices("biome", biomeStore, requestData, apiKey) :
          LET out == biomePOST(biomeStore, requestData, apiKey, replies[1])
          IN  /\ biomeStore' = out.cache
              /\ last' = Served("biome", requestData, apiKey, replies, biomeStore,
                                out, out)
    /\ clock' = clock + 1
    /\ UNCHANGED <<mode, flowerStore, pestStore, singleStore, keyVars, stepVars, textVars>>

\* POST /api/pest-summary
PestRequest ==
    /\ mode = "pest"
    /\ clock < MaxOps
    /\ \E body \in PestBodies, apiKey \in BOOLEAN :
       \E replies \in ReplyChoices("pest", pestStore, body, apiKey) :
          LET out == pestPOST(pestStore, body, apiKey, replies[1], clock + 1)
              twin == pestPOST(pestStore, body, apiKey, replies[1], clock + 2)
          IN  /\ pestStore' = out.cache
              /\ last' = Served("pest", body, apiKey, replies, pestStore, out, twin)
    /\ clock' = clock + 1
    /\ UNCHANGED <<mode, flowerStore, biomeStore, singleStore, keyVars, stepVars, textVars>>

\* POST of part_001
SingleRequest ==
    /\ mode = "single"
    /\ clock < MaxOps
    /\ \E body \in SingleBodies, apiKey \in BOOLEAN :
       \E replies \in ReplyChoices("single", singleStore, body, apiKey) :
          LET out == singlePOST(singleStore, body, apiKey, replies[1], clock + 1)
              twin == singlePOST(singleStore, body, apiKey, replies[1], clock + 2)
          IN  /\ singleStore' = out.cache
              /\ last' = Served("single", body, apiKey, replies, singleStore, out, twin)
    /\ clock' = clock + 1
    /\ UNCHANGED <<mode, flowerStore, biomeStore, pestStore, keyVars, stepVars, textVars>>

Next == FlowerRequest \/ BiomeRequest \/ PestRequest \/ SingleRequest

Spec == Init /\ [][Next]_vars

-----------------------------------------------------------------------------
(* The routes step by step: several requests in progress on one cache file *)

\* Identifiers that follow the one of the source in a longer list.
Candidates == models \o <<"candidate-2", "candidate-3", "candidate-4">>

\* The lists the loop  for (const model of models)  is run over: the list of
\* the source and longer ones.
CandidateLists ==
    {SubSeq(Candidates, 1, n) : n \in 1..(IF MaxModels < Len(Candidates)
                                          THEN MaxModels ELSE Len(Candidates))}

\* The requests of a route that are run step by step.
StepRequests(op) ==
    CASE op = "flower" -> {q \in FlowerBatches :
                              /\ Len(q) = 1
                              /\ q[1].biome = <<"A">>
                              /\ Len(q[1].species) = 1
                              /\ q[1].species[1].scientific_name # <<" ", "a">>}
      [] op = "biome"  -> {q \in BiomeBatches : Len(q) = 1}
      [] op = "pest"   -> {b \in PestBodies : b.biome_name = <<"A">> /\ b.pest_name # <<"A">>}
      [] op = "single" -> {b \in SingleBodies :
                              b.common_name = Undefined /\ b.biome_name # <<"a">>}

\* What the endpoint answers to a fetch of a request run step by step: for
\* the flower loop every reply over the keys of the request; for the other
\* routes a rejected fetch, a non-success status, or an object with a summary
\* for each entity.
StepReplies(op, request) ==
    IF op = "flower"
    THEN ReplyFails \cup
         {[kind |-> "json", msg |-> "", json |-> JsonNull],
          [kind |-> "json", msg |-> "",
           json |-> JsonObject([k \in EntityKeys(op, request) |-> <<"G1">>])]}
    ELSE {r \in ReplyFails : r.kind \in {"throw", "http"} /\ r.msg # ""} \cup
         {[kind |-> "json", msg |-> "",
           json |-> JsonObject([k \in (IF op = "biome" THEN EntityKeys(op, request)
                                      ELSE {SummaryField}) |-> <<"G1">>])]}

\* The handler of a route, with the flower loop running over `list`.
HandleWith(list, op, cache, request, apiKey, replies, now) ==
    IF op = "flower" THEN flowerPOSTWith(list, cache, request, apiKey, replies, now)
    ELSE Handle(op, cache, request, apiKey, replies, now)

\* The answers received so far, followed by failures for the fetches that
\* have no answer yet.
Pad(list, replies) ==
    [i \in 1..Len(list) |->
        IF i <= Len(replies) THEN replies[i]
        ELSE [kind |-> "throw", msg |-> "network", json |-> JsonNull]]

\* pest-summary answers 400 before it reads the cache.
RejectedBeforeRead(op, request) ==
    op = "pest" /\ (Falsy(request.pest_name) \/ Falsy(request.biome_name))

\* The response of the catch block of a route.
FailureFor(op, error) ==
    IF op \in {"pest", "single"} THEN PestResponse(500, Undefined, FALSE, error)
    ELSE Failure(error)

\* Position with writeCache ahead of the fetches.
PositionWriteFirst(out, answered, wrote) ==
    IF out.writes > wrote THEN "writing"
    ELSE IF Len(out.calls) > answered THEN "fetching"
    ELSE "done"

\* What a handler awaits next, given the fetches answered and the writes
\* done: the fetches come first, then writeCache, then the response.
Position(out, answered, wrote) ==
    IF Len(out.calls) > answered THEN "fetching"
    ELSE IF out.writes > wrote THEN "writing"
    ELSE "done"

\* The number of writeCache calls a handler has started.
Wrote(pr) == Cardinality({i \in 1..Len(pr.events) : pr.events[i] = "write"})

\* The handler runs on from `pr` to its next await: it starts the next fetch,
\* or starts writeCache with the object it built, or returns its response.
Advance(pr, out) ==
    LET answered == Len(pr.replies)
        next == Position(out, answered, Wrote(pr))
    IN  CASE next = "fetching" ->
                [pr EXCEPT !.pc = "fetching",
                           !.calls = Append(@, out.calls[answered + 1]),
                           !.events = Append(@, "call")]
          [] next = "writing" ->
                [pr EXCEPT !.pc = "writing", !.doc = out.cache, !.resp = out.resp,
                           !.events = Append(@, "write"), !.raced = FALSE]
          [] next = "done" ->
                [pr EXCEPT !.pc = "done", !.resp = out.resp]

\* new Date(): the time moves on with every write of the cache file.
Now == clock + Len(writeLog) + 1

\* Some other request is inside writeCache.
OtherWriting(p) == \E q \in Procs \ {p} : proc[q].pc = "writing"

\* What fs.readFile can find: the file as it is, or, while another request
\* is inside fs.writeFile, a file of length 0 or a part of the text.
Views(p) == {disk} \cup (IF OtherWriting(p) THEN {EmptyFile, CorruptFile} ELSE {})

\* A request arrives: await req.json(), then the handler starts readCache
\* (pest-summary answers 400 first when a field is missing).  The requests are
\* numbered in the order of their arrival.
Receive(p) ==
    /\ proc[p].pc = "idle"
    /\ \A q \in Procs : q < p => proc[q].pc # "idle"
    /\ \E request \in StepRequests(mode), apiKey \in BOOLEAN :
          proc' = [proc EXCEPT ![p] =
                     IF RejectedBeforeRead(mode, request)
                     THEN [@ EXCEPT !.pc = "done", !.request = request, !.apiKey = apiKey,
                                    !.resp = Handle(mode, EmptyMap, request, apiKey,
                                                    NoReplies, 0).resp]
                     ELSE [@ EXCEPT !.pc = "reading", !.request = request,
                                    !.apiKey = apiKey, !.events = <<"read">>]]
    /\ UNCHANGED <<disk, candidates, writeLog, routeVars, keyVars, textVars>>

\* readCache returns or throws; the handler partitions the request and goes
\* on to its next await.
ReadDone(p) ==
    /\ proc[p].pc = "reading"
    /\ \E fault \in BOOLEAN, view \in Views(p) :
       \E r \in {readCache(mode, view, fault)} :
       \E pr \in {[proc[p] EXCEPT !.cache = r.cache, !.readVersion = Len(writeLog),
                                  !.saw = view.kind, !.readErr = fault,
                                  !.torn = (view # disk)]} :
       \E out \in {HandleWith(candidates, mode, r.cache, pr.request, pr.apiKey,
                              Pad(candidates, <<>>), Now)} :
          proc' = [proc EXCEPT ![p] =
                     IF r.ok THEN Advance(pr, out)
                     ELSE [pr EXCEPT !.pc = "done",
                                     !.resp = FailureFor(mode, r.error)]]
    /\ UNCHANGED <<disk, candidates, writeLog, routeVars, keyVars, textVars>>

\* The generation endpoint answers the fetch the handler awaits.
AnswerArrives(p) ==
    /\ proc[p].pc = "fetching"
    /\ \E reply \in StepReplies(mode, proc[p].request) :
       \E pr \in {[proc[p] EXCEPT !.replies = Append(@, reply)]} :
       \E out \in {HandleWith(candidates, mode, pr.cache, pr.request, pr.apiKey,
                              Pad(candidates, pr.replies), Now)} :
          proc' = [proc EXCEPT ![p] = Advance(pr, out)]
    /\ UNCHANGED <<disk, candidates, writeLog, routeVars, keyVars, textVars>>

\* writeCache returns or throws.  A write that ran while another one
\* completed may leave a mix of the two texts; a write that fails may leave
\* the file as it was, empty, or with a part of the text.
WriteDone(p) ==
    /\ proc[p].pc = "writing"
    /\ \E fault \in BOOLEAN, mixed \in {FALSE, proc[p].raced} :
       \E file \in (IF fault THEN {disk, EmptyFile, CorruptFile}
                    ELSE IF mixed THEN {CorruptFile}
                    ELSE {writeFile(mode, disk, proc[p].doc)}) :
       \E out \in {HandleWith(candidates, mode, proc[p].cache, proc[p].request,
                              proc[p].apiKey, Pad(candidates, proc[p].replies), Now)} :
       \E nxt \in {Advance(proc[p], out)} :
          LET pr == proc[p]
              after == IF fault
                       THEN [pr EXCEPT !.pc = "done", !.writeErr = TRUE,
                                       !.resp = FailureFor(mode, "ENOSPC: no space left on device")]
                       ELSE IF nxt.pc = "done" THEN [pr EXCEPT !.pc = "done"]
                       ELSE nxt
          IN  /\ disk' = file
              /\ proc' = [q \in Procs |->
                            IF q = p THEN after
                            ELSE IF proc[q].pc = "writing"
                                 THEN [proc[q] EXCEPT !.raced = TRUE]
                                 ELSE proc[q]]
              /\ writeLog' = Append(writeLog, [p |-> p, ok |-> ~fault /\ ~mixed])
    /\ UNCHANGED <<candidates, routeVars, keyVars, textVars>>

StepInit ==
    /\ mode \in {"flower", "biome", "pest", "single"}
    /\ RouteIdle
    /\ KeyIdle
    /\ TextIdle
    /\ disk = NoFile
    /\ proc = [p \in Procs |-> IdleProc]
    /\ candidates = models
    /\ writeLog = <<>>

StepNext ==
    \E p \in Procs : Receive(p) \/ ReadDone(p) \/ AnswerArrives(p) \/ WriteDone(p)

StepSpec == StepInit /\ [][StepNext]_vars

-----------------------------------------------------------------------------
(* The generation loop of flower-summary over lists of candidates *)

\* One flower request in progress; the list of candidates is the one of the
\* source or a longer one.
LoopInit ==
    /\ mode = "flower"
    /\ RouteIdle
    /\ KeyIdle
    /\ TextIdle
    /\ disk = NoFile
    /\ proc = [p \in Procs |-> IdleProc]
    /\ candidates \in CandidateLists
    /\ writeLog = <<>>

LoopNext == Receive(1) \/ ReadDone(1) \/ AnswerArrives(1) \/ WriteDone(1)

LoopSpec == LoopInit /\ [][LoopNext]_vars

-----------------------------------------------------------------------------
(* The text of the model: cleaning and JSON.parse *)

\* A text is a sequence of tokens: three backticks, the word json, a blank, a
\* line break, and the text of a JSON object.
Backticks == "<3 backticks>"
JsonWord == "json"
White == {" ", "\n"}

\* The texts of JSON objects the model may return, and the objects they are.
ObjectTexts == {"{}", "{\"a::b\":\"text\"}"}

ObjectOf(token) ==
    IF token = "{}" THEN JsonObject(EmptyMap)
    ELSE JsonObject([k \in {<<"a">> \o Separator \o <<"b">>} |-> <<"text">>])

\* The tokens of t from position i on.
From(t, i) == SubSeq(t, i, Len(t))

\* \s* from position i on: the first position that holds no white space.
RECURSIVE SkipWhite(_, _)
SkipWhite(t, i) ==
    IF i <= Len(t) /\ t[i] \in White THEN SkipWhite(t, i + 1) ELSE i

\* The first alternative of the regular expression of text.replace: the
\* start of the text, three backticks, json, white space.  It matches at
\* the start of the text only (the expression has no m flag).
StripOpening(t) ==
    IF Len(t) >= 2 /\ t[1] = Backticks /\ t[2] = JsonWord
    THEN From(t, SkipWhite(t, 3))
    ELSE t

\* The second alternative: three backticks with nothing but white space
\* between them and the end of the text.
ClosingAt(t) ==
    {i \in 1..Len(t) : t[i] = Backticks /\ SkipWhite(t, i + 1) = Len(t) + 1}

StripClosing(t) ==
    IF ClosingAt(t) = {} THEN t
    ELSE SubSeq(t, 1, (CHOOSE i \in ClosingAt(t) : \A j \in ClosingAt(t) : i <= j) - 1)

\* String.prototype.trim() on a text of tokens.
RECURSIVE TrimWhiteEnd(_)
TrimWhiteEnd(t) ==
    IF t # <<>> /\ t[Len(t)] \in White THEN TrimWhiteEnd(SubSeq(t, 1, Len(t) - 1)) ELSE t

TrimWhite(t) == TrimWhiteEnd(From(t, SkipWhite(t, 1)))

\* cleanedText: text.replace(opening or closing fence, "").trim()
cleanText(t) == TrimWhite(StripClosing(StripOpening(t)))

\* What the loop of flower-summary makes of a text: an empty cleaned text is
\* 'Empty response from Gemini', JSON.parse returns the object of a text that
\* is the text of an object and throws on any other.
parseText(t) ==
    LET cleanedText == cleanText(t)
    IN  IF cleanedText = <<>>
        THEN [kind |-> "empty", json |-> JsonNull]
        ELSE IF Len(cleanedText) = 1 /\ cleanedText[1] \in ObjectTexts
        THEN [kind |-> "json", json |-> ObjectOf(cleanedText[1])]
        ELSE [kind |-> "badjson", json |-> JsonNull]

\* White space before or after a text.
Paddings == {<<>>, <<" ">>, <<"\n">>, <<"\n", " ">>}

\* A payload in a code fence.
Fenced(payload, inner1, inner2) ==
    <<Backticks, JsonWord>> \o inner1 \o <<payload>> \o inner2 \o <<Backticks>>

\* The model returned the text of an object, bare or in a json code fence,
\* with or without white space around it.
TextInit ==
    /\ \E payload \in ObjectTexts, fenced \in BOOLEAN,
          lead \in Paddings, trail \in Paddings, inner \in {<<>>, <<"\n">>} :
          modelText = [payload |-> payload, fenced |-> fenced,
                       text |-> lead \o (IF fenced THEN Fenced(payload, inner, inner)
                                         ELSE <<payload>>) \o trail]
    /\ parsedText = NotParsed

\* The route cleans the text and hands it to JSON.parse.
ParseText ==
    /\ ~parsedText.done
    /\ parsedText' = [done |-> TRUE,
                      cleaned |-> cleanText(modelText.text),
                      bare |-> parseText(<<modelText.payload>>),
                      got |-> parseText(modelText.text)]
    /\ UNCHANGED <<modelText, routeVars, keyVars, stepVars>>

TextSpecInit ==
    /\ mode = "text"
    /\ RouteIdle
    /\ KeyIdle
    /\ StepIdle
    /\ TextInit

TextSpec == TextSpecInit /\ [][ParseText]_vars

-----------------------------------------------------------------------------
(* makeKey on its own *)

KeySpecInit ==
    /\ mode = "key"
    /\ RouteIdle
    /\ KeyInit
    /\ StepIdle
    /\ TextIdle

KeyNext ==
    \/ KeyVariant /\ UNCHANGED <<routeVars, stepVars, textVars>>
    \/ KeyApply /\ UNCHANGED <<routeVars, stepVars, textVars>>

KeySpec == KeySpecInit /\ [][KeyNext]_vars

\* makeKey on two entities.
PairSpecInit ==
    /\ mode = "key"
    /\ RouteIdle
    /\ PairInit
    /\ StepIdle
    /\ TextIdle

PairNext ==
    \/ KeyOther /\ UNCHANGED <<routeVars, stepVars, textVars>>
    \/ KeyApply /\ UNCHANGED <<routeVars, stepVars, textVars>>

PairSpec == PairSpecInit /\ [][PairNext]_vars

-----------------------------------------------------------------------------
(* Properties of the batch routes *)

IsBatch == last.op \in {"flower", "biome"}

\* The store of the route that served the last request, as it is now.
Store ==
    CASE last.op = "flower" -> flowerStore
      [] last.op = "biome"  -> biomeStore
      [] last.op = "pest"   -> pestStore
      [] last.op = "single" -> singleStore

LastKeys == EntityKeys(last.op, last.requestData)

\* The keys of the entities serialized into one prompt, in order.
PayloadKeys(op, payload) ==
    CASE op = "flower" -> flowerKeys(SpeciesOf(payload))
      [] op = "biome"  -> [i \in 1..Len(payload) |-> payload[i].biome]
      [] op = "pest"   -> [i \in 1..Len(payload) |->
                              pestMakeKey(payload[i].pest_name, payload[i].biome_name)]

NoDuplicates(seq) == \A i, j \in 1..Len(seq) : i # j => seq[i] # seq[j]

\* C1: the summaries a batch route returns contain a summary under the cache
\* key of every entity of the request, whatever the endpoint answered.
C1_TotalCoverage ==
    IsBatch => LastKeys \subseteq DOMAIN last.resp.summaries

\* C2: a batch request served without an API key, or whose fetch got a
\* non-success status or a text that does not parse, ends in a success response
\* with a summary for every entity.
C2_FailuresRecovered ==
    (/\ IsBatch
     /\ \/ ~last.apiKey
        \/ /\ last.calls # <<>>
           /\ last.replies[1].kind \in {"http", "badjson"})
    => /\ last.resp.status = 200
       /\ LastKeys \subseteq DOMAIN last.resp.summaries

\* C3: when every entity of a batch has a non-empty cached summary, the route
\* makes no fetch, does not write the cache, and returns exactly the cached
\* summaries with model "cache".
C3_CacheShortCircuit ==
    (/\ IsBatch
     /\ \A k \in LastKeys :
           k \in DOMAIN last.cacheRead /\ last.cacheRead[k].summary # <<>>)
    => /\ last.calls = <<>>
       /\ last.writes = 0
       /\ Store = last.cacheRead
       /\ last.resp.status = 200
       /\ last.resp.model = "cache"
       /\ last.resp.summaries = [k \in LastKeys |-> last.cacheRead[k].summary]

\* C3 happens: a non-empty batch was served entirely from the cache.
C3_Witness ==
    /\ IsBatch
    /\ LastKeys # {}
    /\ \A k \in LastKeys :
          k \in DOMAIN last.cacheRead /\ last.cacheRead[k].summary # <<>>
    /\ last.resp.model = "cache"
    /\ last.apiKey

\* C4: no prompt sent to the endpoint contains two records with the same
\* cache key.
C4_AtMostOncePerKey ==
    IsBatch =>
        \A i \in 1..Len(last.calls) :
            NoDuplicates(PayloadKeys(last.op, last.calls[i].payload))

\* C5: a request never changes the summary of a cache entry whose summary was
\* non-empty when the request read the cache.
C5_SummaryNeverReplaced ==
    last.op # "none" =>
        \A k \in DOMAIN last.cacheRead :
            last.cacheRead[k].summary # <<>> =>
                /\ k \in DOMAIN Store
                /\ Store[k].summary = last.cacheRead[k].summary

\* C6: an entity whose key had a non-empty summary in the cache read by a batch
\* request is in no prompt of that request, and the summary returned for it is
\* the cached one.
C6_CacheHitsHonoured ==
    IsBatch =>
        \A k \in LastKeys :
            (k \in DOMAIN last.cacheRead /\ last.cacheRead[k].summary # <<>>) =>
                /\ \A i \in 1..Len(last.calls) :
                      k \notin Range(PayloadKeys(last.op, last.calls[i].payload))
                /\ last.resp.status = 200 =>
                      /\ k \in DOMAIN last.resp.summaries
                      /\ last.resp.summaries[k] = last.cacheRead[k].summary

\* The records of the last batch request in order, each with its cache key and
\* the no-key template sentence built from its own fields.
NoKeyRecords ==
    CASE last.op = "flower" ->
            LET pairs == SpeciesOf(last.requestData)
            IN  [i \in 1..Len(pairs) |->
                    [key |-> flowerKey(pairs[i]),
                     text |-> flowerNoKeyText(pairs[i].species, pairs[i].biome)]]
      [] last.op = "biome" ->
            [i \in 1..Len(last.requestData) |->
                [key |-> last.requestData[i].biome,
                 text |-> biomeNoKeyText(last.requestData[i])]]

\* The key had no non-empty summary in the cache the request read.
Uncached(key) ==
    ~(key \in DOMAIN last.cacheRead /\ last.cacheRead[key].summary # <<>>)

\* The key has the no-key fallback `text` in the response and in the store.
NoKeyFallbackUnder(key, text) ==
    /\ key \in DOMAIN last.resp.summaries
    /\ last.resp.summaries[key] = text
    /\ key \in DOMAIN Store
    /\ Store[key].summary = text
    /\ Store[key].modelUsed = "fallback/no-key"
    /\ last.resp.model = "fallback/no-key"

\* C7: a batch request served without an API key makes no fetch, succeeds with
\* a summary for every key, and gives every uncached entity, in the response
\* and in the store (modelUsed "fallback/no-key"), the template sentence built
\* from its own fields (those of the last record of the batch with its key);
\* the store gains exactly the uncached keys and keeps its other entries.
C7_NoKeyFallbackPerKey ==
    (IsBatch /\ ~last.apiKey) =>
        LET recs == NoKeyRecords
            uncachedKeys == {k \in LastKeys : Uncached(k)}
        IN  /\ last.calls = <<>>
            /\ last.resp.status = 200
            /\ DOMAIN last.resp.summaries = LastKeys
            /\ \A i \in DOMAIN recs :
                  (/\ Uncached(recs[i].key)
                   /\ \A j \in DOMAIN recs : j > i => recs[j].key # recs[i].key)
                  => NoKeyFallbackUnder(recs[i].key, recs[i].text)
            /\ DOMAIN Store = DOMAIN last.cacheRead \cup uncachedKeys
            /\ \A k \in DOMAIN last.cacheRead \ uncachedKeys : Store[k] = last.cacheRead[k]
            /\ last.writes = (IF uncachedKeys = {} THEN 0 ELSE 1)

\* C7 happens: a batch with two uncached entities of different keys was served
\* without an API key.
C7_Witness ==
    /\ IsBatch
    /\ ~last.apiKey
    /\ Cardinality({k \in LastKeys : Uncached(k)}) = 2
    /\ last.resp.model = "fallback/no-key"
    /\ Cardinality(DOMAIN Store) = Cardinality(DOMAIN last.cacheRead) + 2

\* C8: a request served without an API key returns the same texts at another
\* time, and the same texts as the same request served just before it; a
\* no-key sentence in the flower store is the template applied to the fields
\* stored with it.
C8_FallbackDeterminism ==
    (last.op # "none" /\ ~last.apiKey) =>
        /\ last.twin = Texts(last.resp)
        /\ last.prev.same => last.prev.texts = Texts(last.resp)
        /\ \A k \in DOMAIN flowerStore :
              flowerStore[k].modelUsed = "fallback/no-key" =>
                  flowerStore[k].summary = flowerNoKeyText(flowerStore[k], flowerStore[k])

\* C8 happens: the no-key path ran twice for the same flower batch, and the
\* second run returned the sentences the first one produced.
C8_Witness ==
    /\ last.op = "flower"
    /\ ~last.apiKey
    /\ last.prev.same
    /\ Cardinality(LastKeys) = 2
    /\ \A k \in LastKeys :
          /\ k \in DOMAIN flowerStore
          /\ flowerStore[k].modelUsed = "fallback/no-key"
          /\ last.resp.summaries[k] = flowerStore[k].summary
          /\ flowerStore[k].generatedAt < clock

\* The replies to the fetches the last request made.
LastAnswers == [i \in 1..Len(last.calls) |-> last.replies[i]]

\* The text of some fetch of the last request parsed to an object.
LastParsed ==
    \E i \in 1..Len(last.calls) :
        LastAnswers[i].kind = "json" /\ JsonTruthy(LastAnswers[i].json)

\* Every fetch of the last request failed: rejected, non-success status,
\* empty text or text that does not parse.
LastAllFailed ==
    /\ last.calls # <<>>
    /\ \A i \in 1..Len(last.calls) : LastAnswers[i].kind # "json"

\* C13: a success response of a batch route carries a provenance tag: "cache"
\* exactly when nothing needed fetching, "fallback/no-key" when entities needed
\* fetching and there is no API key, the identifier of the model that answered
\* when its text parsed to an object, and "fallback/generator-failed" with a
\* diagnostic message when every fetch failed.
C13_ProvenanceTag ==
    (IsBatch /\ last.resp.status = 200) =>
        /\ last.resp.model # Absent
        /\ last.resp.model = "cache" <=> last.toFetch = <<>>
        /\ (last.toFetch # <<>> /\ ~last.apiKey) => last.resp.model = "fallback/no-key"
        /\ LastParsed => last.resp.model = last.calls[Len(last.calls)].model
        /\ LastAllFailed =>
              /\ last.resp.model = "fallback/generator-failed"
              /\ last.resp.error \notin {Absent, Null, ""}

\* The keys of the objects the fetches of the last request parsed to.
LastModelKeys ==
    UNION {DOMAIN LastAnswers[i].json.m :
              i \in {j \in 1..Len(last.calls) : LastAnswers[j].kind = "json"}}

\* C18: a key of the model's object that is not the cache key of an entity of
\* the batch is not in the returned summaries, and the store holds under it
\* what it held before the request (nothing, or the same entry).
C18_UnexpectedKeysIgnored ==
    IsBatch =>
        \A k \in LastModelKeys \ LastKeys :
            /\ k \notin DOMAIN last.resp.summaries
            /\ k \in DOMAIN Store => (k \in DOMAIN last.cacheRead /\ Store[k] = last.cacheRead[k])

-----------------------------------------------------------------------------
(* Properties of the single-entity routes *)

IsSingle == last.op \in {"pest", "single"}

\* The request carries the identity fields: a name and a biome name.
ValidIdentity(op, body) ==
    CASE op = "pest"   -> ~Falsy(body.pest_name) /\ ~Falsy(body.biome_name)
      [] op = "single" -> /\ ~Falsy(body.scientific_name) \/ ~Falsy(body.common_name)
                          /\ ~Falsy(body.biome_name)

\* The template sentence of a single-entity route for a request.
TemplateText(op, body) ==
    CASE op = "pest"   -> pestNoKeyText(body.pest_name, body.biome_name)
      [] op = "single" -> singleNoKeyText(body)

\* The fetch of the last request was answered with an object that has a
\* summary.
LastGenerated ==
    /\ last.apiKey
    /\ last.replies[1].kind = "json"
    /\ last.replies[1].json.t = "object"
    /\ SummaryField \in DOMAIN last.replies[1].json.m

\* C11: a single-entity request with its identity fields gets a success
\* response with a summary: on a cache hit the cached one with cached: true,
\* no fetch and no cache write; otherwise the generated one, or the template
\* sentence when there is no API key or the fetch did not yield a summary.
C11_SingleAlwaysSummary ==
    (IsSingle /\ ValidIdentity(last.op, last.requestData)) =>
        LET key == CHOOSE k \in LastKeys : TRUE
            hit == HasSummary(last.cacheRead, key)
        IN  /\ last.resp.status = 200
            /\ last.resp.summary # Undefined
            /\ hit => /\ last.resp.cached
                      /\ last.resp.summary = last.cacheRead[key].summary
                      /\ last.calls = <<>>
                      /\ last.writes = 0
                      /\ Store = last.cacheRead
            /\ (~hit /\ LastGenerated) =>
                  last.resp.summary = last.replies[1].json.m[SummaryField]
            /\ (~hit /\ ~LastGenerated) =>
                  last.resp.summary = TemplateText(last.op, last.requestData)

\* C12: a single-entity request without an identity field gets a failure
\* response without a summary; no fetch is made and the cache is not written.
C12_InvalidRequestRejected ==
    (IsSingle /\ ~ValidIdentity(last.op, last.requestData)) =>
        /\ last.resp.status # 200
        /\ last.resp.summary = Undefined
        /\ last.calls = <<>>
        /\ last.writes = 0
        /\ Store = last.cacheRead

-----------------------------------------------------------------------------
(* One request of a route that calls fetch once, with a file system that
   completes its work *)

\* biome-summary, pest-summary and the single flower route: one request in
\* progress.
SoloInit == StepInit /\ mode \in {"biome", "pest", "single"}

\* The file system completes every read and write it was asked for; nothing
\* makes the generation endpoint answer, and fetch is called without a signal
\* that would abort it.
FairSoloSpec ==
    SoloInit /\ [][LoopNext]_vars /\ WF_vars(ReadDone(1)) /\ WF_vars(WriteDone(1))

\* C22: an entity for which the preceding request returned a summary is
\* served by the next request from the cache: it is in no prompt, and the
\* response returns the same summary, with or without an API key.
C22_GenerateOnce ==
    last.op # "none" =>
        \A k \in LastKeys \cap DOMAIN last.earlier :
            /\ last.op \in {"flower", "biome"} =>
                  \A i \in 1..Len(last.calls) :
                      k \notin Range(PayloadKeys(last.op, last.calls[i].payload))
            /\ last.op \in {"pest", "single"} => last.calls = <<>>
            /\ k \in DOMAIN Returned(last.op, last.requestData, last.resp)
            /\ Returned(last.op, last.requestData, last.resp)[k] = last.earlier[k]

\* C24: every entry of the cache has a summary that is a non-empty string,
\* and a successful response of a single-entity route returns one: an answer
\* of the model without the summary text is neither stored nor returned.
C24_SummaryNonEmptyString ==
    last.op # "none" =>
        /\ \A k \in DOMAIN Store : ~Falsy(Store[k].summary)
        /\ (IsSingle /\ last.resp.status = 200) => ~Falsy(last.resp.summary)

\* C25: in biome-summary a biome whose code, trimmed and lower-cased, is
\* that of a cache entry with a summary is a cache hit: it is not in
\* biomesToFetch, so nothing is generated for it, and the response returns
\* the summary of that entry.
C25_BiomeKeyNormalized ==
    last.op = "biome" =>
        \A i \in 1..Len(last.requestData), k \in DOMAIN last.cacheRead :
            (/\ ~Falsy(last.cacheRead[k].summary)
             /\ keyBiome(k) = keyBiome(last.requestData[i].biome)) =>
                /\ last.requestData[i] \notin Range(last.toFetch)
                /\ \A j \in 1..Len(last.calls) :
                      last.requestData[i] \notin Range(last.calls[j].payload)
                /\ last.resp.status = 200
                /\ last.cacheRead[k].summary \in
                      {last.resp.summaries[r] : r \in DOMAIN last.resp.summaries}

-----------------------------------------------------------------------------
(* Properties of the requests run step by step *)

\* The handler of request p is past its read of the cache.
HasRead(p) == proc[p].pc \notin {"idle", "reading"} /\ proc[p].saw # "none"

\* The read of request p failed: an error other than ENOENT, or a text that
\* JSON.parse rejects.
ReadFailed(p) == HasRead(p) /\ (proc[p].readErr \/ proc[p].saw = "corrupt")

\* p is a failure response with a message and without any summary.
IsFailureResponse(resp) ==
    /\ resp.status = 500
    /\ resp.error \notin {"", Absent, Null}
    /\ resp.summaries = EmptyMap
    /\ resp.summary = Undefined

\* What the whole handler returns for request p on the cache it read and the
\* answers it got.
WholeResponse(p) ==
    HandleWith(candidates, mode, proc[p].cache, proc[p].request, proc[p].apiKey,
               Pad(candidates, proc[p].replies), 0).resp

\* C14: a read that finds no cache file gives the empty mapping and the
\* request is served as on an empty cache; a read that fails otherwise ends
\* the request with a failure response with a message and without summaries,
\* with no fetch and no write; a write that fails ends it with such a failure
\* response as well.
C14_CacheIOFaults ==
    \A p \in Procs :
        /\ (HasRead(p) /\ proc[p].saw = "missing" /\ ~proc[p].readErr) =>
              /\ proc[p].cache = EmptyMap
              /\ (proc[p].pc = "done" /\ ~proc[p].writeErr) =>
                    proc[p].resp = WholeResponse(p)
        /\ ReadFailed(p) =>
              /\ proc[p].pc = "done"
              /\ IsFailureResponse(proc[p].resp)
              /\ proc[p].calls = <<>>
              /\ proc[p].events = <<"read">>
              /\ \A i \in 1..Len(writeLog) : writeLog[i].p # p
        /\ proc[p].writeErr =>
              /\ proc[p].pc = "done"
              /\ IsFailureResponse(proc[p].resp)

\* C14 happens: one request failed in writeCache while it stored a summary,
\* and another one, with an API key, failed in readCache.
C14_Witness ==
    \E p, q \in Procs :
        /\ proc[p].writeErr
        /\ proc[p].doc # EmptyMap
        /\ proc[q].pc = "done"
        /\ ReadFailed(q)
        /\ proc[q].apiKey
        /\ proc[q].resp.status = 500

\* The read of request p returned the document the file held.
CleanRead(p) == HasRead(p) /\ ~proc[p].readErr /\ ~proc[p].torn

\* The writes of the cache file that request p completed.
WritesOf(p) == {i \in 1..Len(writeLog) : writeLog[i].p = p}

\* Request p completed a write that left its whole text in the file.
WroteWhole(p) == \E i \in WritesOf(p) : writeLog[i].ok

\* The keys request p added to the object it read.
NewKeys(p) == DOMAIN proc[p].doc \ DOMAIN proc[p].cache

\* Requests p and q both read the file before either wrote it, each added a
\* key of its own, p wrote first and q wrote last.
Interleaved(p, q) ==
    /\ p # q
    /\ CleanRead(p) /\ CleanRead(q)
    /\ WroteWhole(p) /\ WroteWhole(q)
    /\ \A i \in WritesOf(p) \cup WritesOf(q) :
          proc[p].readVersion < i /\ proc[q].readVersion < i
    /\ \A i \in WritesOf(p), j \in WritesOf(q) : i < j
    /\ Len(writeLog) \in WritesOf(q)
    /\ NewKeys(p) # {} /\ NewKeys(q) # {}
    /\ NewKeys(p) \cap NewKeys(q) = {}

\* C15: when two requests on one cache file both read it before either
\* writes, and each adds an entry under a key of its own, the file after both
\* writes holds the object of the last writer and none of the keys the first
\* writer added.
C15_LostUpdate ==
    \A p, q \in Procs :
        Interleaved(p, q) =>
            /\ disk = FileOf(JsonStringify(proc[q].doc))
            /\ \A k \in NewKeys(p) : k \notin DOMAIN disk.doc

\* C15 happens: two requests interleaved that way, both answered with
\* status 200, and the entry the first one stored is not in the file.
C15_Witness ==
    \E p, q \in Procs :
        /\ Interleaved(p, q)
        /\ proc[p].pc = "done" /\ proc[q].pc = "done"
        /\ proc[p].resp.status = 200 /\ proc[q].resp.status = 200
        /\ disk.kind = "json"
        /\ DOMAIN proc[p].doc \ DOMAIN disk.doc # {}

\* C16: every request that was received is answered in the end, even if the
\* generation endpoint never answers a fetch.
C16_EveryOperationTerminates ==
    \A p \in Procs : (proc[p].pc # "idle") ~> (proc[p].pc = "done")

\* The positions of the steps of one kind in the run of request p.
StepsOf(p, kind) == {i \in 1..Len(proc[p].events) : proc[p].events[i] = kind}

\* C19: a batch request reads the cache once, before anything else; it
\* writes the cache at most once, after its last fetch, and that write is its
\* last step; no fetch writes the cache, so the file is as the request found
\* it until that write.
C19_StepsOrdered ==
    mode \in {"flower", "biome"} =>
        /\ \A p \in Procs :
              LET ev == proc[p].events
              IN  /\ proc[p].pc # "idle" => StepsOf(p, "read") = {1}
                  /\ Cardinality(StepsOf(p, "write")) <= 1
                  /\ \A i \in StepsOf(p, "write") : i = Len(ev)
                  /\ Cardinality(StepsOf(p, "call")) = Len(proc[p].calls)
                  /\ \A i \in StepsOf(p, "call"), j \in StepsOf(p, "write") : i < j
                  /\ Cardinality(WritesOf(p)) <= Cardinality(StepsOf(p, "write"))
                  /\ WritesOf(p) # {} => proc[p].pc = "done"
        /\ writeLog = <<>> => disk = NoFile

\* C19 happens: a batch request read the cache, fetched, wrote the cache and
\* answered with status 200, in that order.
C19_Witness ==
    /\ mode \in {"flower", "biome"}
    /\ \E p \in Procs :
          /\ proc[p].pc = "done"
          /\ proc[p].events = <<"read", "call", "write">>
          /\ WritesOf(p) # {}
          /\ proc[p].resp.status = 200
          /\ disk = FileOf(JsonStringify(proc[p].doc))

\* The write of the cache file that the read of request q followed, when
\* that write left its whole text in the file.
ReadAfterWrite(q) ==
    /\ CleanRead(q)
    /\ proc[q].readVersion > 0
    /\ writeLog[proc[q].readVersion].ok

CalledKeys(p) ==
    IF mode \in {"pest", "single"}
    THEN (IF proc[p].calls = <<>> THEN {} ELSE EntityKeys(mode, proc[p].request))
    ELSE UNION {Range(PayloadKeys(mode, proc[p].calls[i].payload)) :
                  i \in 1..Len(proc[p].calls)}

\* C26: of two requests for the same uncached key at most one sends the key
\* to the generation endpoint, and when both write the cache file whole, the
\* later write does not replace a non-empty summary of the earlier one by
\* another one.
C26_OneGenerationPerKey ==
    \A p, q \in Procs :
        p # q =>
            /\ CalledKeys(p) \cap CalledKeys(q) = {}
            /\ \A i \in WritesOf(p), j \in WritesOf(q) :
                  (i < j /\ writeLog[i].ok /\ writeLog[j].ok) =>
                      \A k \in DOMAIN proc[p].doc \cap DOMAIN proc[q].doc :
                          ~Falsy(proc[p].doc[k].summary) =>
                              proc[q].doc[k].summary = proc[p].doc[k].summary

-----------------------------------------------------------------------------
(* Properties of the generation loop *)

\* The answer to the i-th fetch of the request was a failure: a status that
\* is not ok, an empty text, a text that does not parse, or a rejected fetch.
FailedAt(i) == proc[1].replies[i].kind # "json"

\* C17: the candidates are called in the order of the list, one fetch at a
\* time; after a failure the next candidate is called; after the first text
\* that parses no candidate is called; when every candidate failed, the
\* response has the model "fallback/generator-failed" and the reason of the
\* last failure as its error (unless writeCache failed, which is C14).
C17_CandidatesInOrder ==
    LET pr == proc[1]
        called == Len(pr.calls)
        answered == Len(pr.replies)
    IN  /\ called <= Len(candidates)
        /\ \A i \in 1..called : pr.calls[i].model = candidates[i]
        /\ called - answered = (IF pr.pc = "fetching" THEN 1 ELSE 0)
        /\ \A i \in 1..answered :
              /\ (FailedAt(i) /\ i < Len(candidates)) => called >= i + 1
              /\ ~FailedAt(i) => called = i
        /\ (pr.pc = "done" /\ ~pr.writeErr /\ answered = Len(candidates)
                           /\ \A i \in 1..answered : FailedAt(i)) =>
              /\ pr.resp.status = 200
              /\ pr.resp.model = "fallback/generator-failed"
              /\ pr.resp.error = flowerLastError(pr.replies[answered])

\* C17 happens: of three candidates the first failed, the second returned a
\* text that parsed, the third was never called, and the response names the
\* second as its model.
C17_Witness ==
    /\ Len(candidates) = 3
    /\ proc[1].pc = "done"
    /\ Len(proc[1].calls) = 2
    /\ FailedAt(1)
    /\ ~FailedAt(2)
    /\ proc[1].resp.model = candidates[2]
    /\ proc[1].resp.summaries # EmptyMap

-----------------------------------------------------------------------------
(* Properties of makeKey *)

\* C9: argument triples that are equal after trimming and lower-casing get the
\* same key, and the key of the normalized fields is the key itself.
C9_KeyNormalization ==
    kout.done =>
        /\ kout.key1 = kout.key2
        /\ kout.pkey1 = kout.pkey2
        /\ kout.again = kout.key1
        /\ kout.pagain = kout.pkey1

\* C10: neither half of a key is empty, and an absent or blank argument gives
\* the half "unknown".
C10_BlankBecomesUnknown ==
    kout.done =>
        /\ kout.name # <<>> /\ kout.pname # <<>> /\ kout.biome # <<>>
        /\ Blank(kin1[3]) => kout.biome = Unknown
        /\ Blank(kin1[1]) => kout.pname = Unknown
        /\ (Blank(kin1[1]) /\ Blank(kin1[2])) => kout.name = Unknown

\* C23: two entities whose normalized names or normalized biomes differ get
\* different keys, also when a name or a biome holds "::" or is "unknown".
C23_KeysCollisionFree ==
    kout.done =>
        /\ (kout.name # kout.name2 \/ kout.biome # kout.biome2) =>
              kout.key1 # kout.key2
        /\ (kout.pname # kout.pname2 \/ kout.biome # kout.biome2) =>
              kout.pkey1 # kout.pkey2

-----------------------------------------------------------------------------
(* Properties of the cleaning of the model's text *)

\* C21: the text of an object gives the same parsed object bare, in a
\* json code fence, and with white space before or after either of them.
C21_FenceStripping ==
    parsedText.done =>
        /\ parsedText.bare.kind = "json"
        /\ parsedText.got = parsedText.bare

====
